---- MODULE Spec2Model ----
(***************************************************************************)
(* A model of the AVR "pong" video generator.                              *)
(*                                                                         *)
(*   Part I   the scan-line state machine of pong.c: the main loop wakes   *)
(*            on every Timer1 compare match, calls the current sync        *)
(*            handler (equalizing, vsync or hsync) and then renderer().    *)
(*   Part II  the drawing primitives of videoutil.c on the packed          *)
(*            1-bit-per-pixel buffer.                                      *)
(*   Part III game() of ponggame.c: the paddles, the ball, the serve and   *)
(*            the score, drawn with the primitives of Part II.             *)
(***************************************************************************)
EXTENDS Integers, Sequences, FiniteSets, TLC

(***************************************************************************)
(* Program constants of pong.c.                                            *)
(***************************************************************************)
HSYNC == 480
HSYNCHALF == HSYNC \div 2
SYNCWIDTH == 24
EQUWIDTH == 10
VSYNCWIDTH == 216
FIRSTLINE == 1
LASTLINE == 262
STARTRENDER == 20
STOPRENDER == 261
RENDERREP == 5
PIXELBYTES == 10
TEMPPIXBYTES == 20

(***************************************************************************)
(* Bounds of the model.                                                    *)
(***************************************************************************)
\* completed fields that are told apart (the counter saturates there)
MaxFields == 2
\* drawing operations (clear() apart) applied in one behaviour of the primitives
MaxOps == 1

VARIABLES
    \* ---- pong.c: program state
    scanLine,           \* uint16_t scan line counter
    halfLineCounter,    \* uint8_t half scan line counter
    skipRendering,      \* uint8_t renderer enable flag
    syncHandler,        \* the handler the function pointer names
    OCR1A,              \* Timer1 compare value: the period of the tick
    OCR0A,              \* Timer0 compare value: the sync pulse width
    PORTD,              \* port D: bit 2 is the sync pin
    TCCR0B,             \* Timer0 clock select: 0 is stopped
    TCNT0,              \* Timer0 counter
    TIFR0,              \* Timer0 flags: bit 1 is OCF0A, the compare flag
    activeFunction,     \* the routine hooked for the tick (ponggame.c:58)
    pc,                 \* position in main's loop: "sync", "render", "active"
    \* ---- pong.c: observations of the run
    tickHandler,        \* handler that ran on this tick
    pulses,             \* widths of the low sync pulses made on this tick
    entryLine,          \* scanLine when that handler was entered
    udrLog,             \* writes to UDR0 on this tick: <<video index or -1, byte>>
    gameRan,            \* game() ran on this tick
    wrapped,            \* the handler of this tick ended the field
    fieldTime,          \* Timer1 counts elapsed in this field
    nEqu, nVs, nHs,     \* ticks of this field, by handler
    nRendered,          \* lines transmitted in this field
    nGame,              \* game() invocations in this field
    fieldsDone,         \* completed fields (saturates at MaxFields)
    seen,               \* <<line, handler, pulse width>> met at the ticks
    \* ---- videoutil.c: program state
    horisontalPixels, verticalPixels, horizontalBytes, bufferSize,
    videoBuffer,        \* "null" or "buffer"
    initialized,
    vram,               \* the bytes of the buffer the model holds
    \* ---- videoutil.c: observations of the run
    hpixels, vpixels,   \* the arguments videoinit was given
    lastOp, argX, argY, argC,
    prevVram,           \* vram before the last operation
    lastWrites,         \* <<pointer, index>> stored to by the last operation
    linePts,            \* the points the last line() handed to pset, in order
    lineDone,           \* whether the last line() reached its end point
    opCount,
    \* ---- ponggame.c: program state
    rightPaddle, leftPaddle,            \* uint8_t ADC paddle readings
    rightPadTarget, curRightPadCenter,  \* uint8_t
    leftPadTarget, curLeftPadCenter,    \* uint8_t
    leftScore, rightScore,              \* uint8_t
    scoringFlag,                        \* NONE, LEFT, RIGHT
    ball,               \* the ints ballX0, ballY0, ballX1, ballY1, dx, sx, dy, sy, err, e2
    serveOffset,        \* int
    serveDir,           \* UP or DOWN
    ballSkipCycles,     \* uint8_t
    serveFlag,          \* NOSERVE, RIGHTSERVE, LEFTSERVE
    \* ---- ponggame.c: the environment and observations of the run
    adcRight, adcLeft,  \* what the ADC converts for each paddle: the knobs' positions
    gameOn,             \* the buffer of the game has been set up
    calls,              \* the drawing calls of the last game(), by their purpose
    advanced,           \* the last game() took the branch that moves the ball
    served,             \* the last serve, and the steps the served ball has made
    undefinedDivs       \* the invocations of game() that divided by zero

syncVars == <<scanLine, halfLineCounter, skipRendering, syncHandler, OCR1A,
              OCR0A, activeFunction, pc, tickHandler, entryLine, udrLog,
              gameRan, wrapped, fieldTime, nEqu, nVs, nHs, nRendered, nGame,
              fieldsDone, seen, PORTD, TCCR0B, TCNT0, TIFR0, pulses>>

\* Timer0, the sync pin and what was seen of them
timerVars == <<PORTD, TCCR0B, TCNT0, TIFR0, pulses>>

pixVars == <<horisontalPixels, verticalPixels, horizontalBytes, bufferSize,
             videoBuffer, initialized, vram, hpixels, vpixels, lastOp, argX,
             argY, argC, prevVram, lastWrites, linePts, lineDone, opCount>>

gameVars == <<rightPaddle, leftPaddle, rightPadTarget, curRightPadCenter,
              leftPadTarget, curLeftPadCenter, leftScore, rightScore,
              scoringFlag, ball, serveOffset, serveDir, ballSkipCycles,
              serveFlag, adcRight, adcLeft, gameOn, calls, advanced,
              served, undefinedDivs>>

vars == <<syncVars, pixVars, gameVars>>

U8(n) == n % 256
U16(n) == n % 65536

(***************************************************************************)
(* PART I: pong.c                                                          *)
(***************************************************************************)

\* uint8_t video[TEMPPIXBYTES] = {0x55, ...}
video == [i \in 0 .. TEMPPIXBYTES - 1 |-> 85]

\* The registers and globals the sync handlers read and write.
\* pulses and lowFor (the time the sync pin has been low) are kept for the
\* invocation; returns is FALSE when the handler waits for ever.
SyncState == [scanLine |-> scanLine, halfLineCounter |-> halfLineCounter,
              skipRendering |-> skipRendering, syncHandler |-> syncHandler,
              OCR1A |-> OCR1A, OCR0A |-> OCR0A,
              PORTD |-> PORTD, TCCR0B |-> TCCR0B, TCNT0 |-> TCNT0,
              TIFR0 |-> TIFR0, pulses |-> <<>>, lowFor |-> 0,
              returns |-> TRUE]

\* bit 2 of PORTD: the level of the sync pin
syncPin(portd) == (portd \div 4) % 2
\* bit 1 of TIFR0
compareFlag(tifr0) == (tifr0 \div 2) % 2

\* TCNT0 = 0; OCR0A = width; PORTD &= 0xfb; TCCR0B |= 0x01;
startPulse(s, width) ==
    [s EXCEPT !.TCNT0 = 0, !.OCR0A = width,
              !.PORTD = @ - 4 * syncPin(@),
              !.TCCR0B = @ + (1 - (@ % 2))]

\* loop_until_bit_is_set(TIFR0, OCF0A): with the flag clear, the running
\* Timer0 counts from TCNT0 up to OCR0A, sets the flag and starts again
\* from 0 (CTC mode); a stopped Timer0 never sets it
waitCompare(s) ==
    IF compareFlag(s.TIFR0) = 1 THEN s
    ELSE IF s.TCCR0B % 2 = 0 THEN [s EXCEPT !.returns = FALSE]
    ELSE [s EXCEPT !.TIFR0 = @ + 2, !.TCNT0 = 0,
                   !.lowFor = IF syncPin(s.PORTD) = 0
                              THEN @ + (s.OCR0A - s.TCNT0) ELSE @]

\* A pulse end that leaves the compare flag set.
endPulseFlagLeft(s) ==
    [s EXCEPT !.PORTD = @ + 4 * (1 - syncPin(@)),
              !.pulses = IF syncPin(s.PORTD) = 0 THEN Append(@, s.lowFor)
                         ELSE @,
              !.lowFor = 0, !.TCCR0B = 0]

\* PORTD |= 0x04; TCCR0B = 0x00; TIFR0 |= 0x02; (a flag is cleared by
\* writing 1 to it)
endPulse(s) ==
    [s EXCEPT !.PORTD = @ + 4 * (1 - syncPin(@)),
              !.pulses = IF syncPin(s.PORTD) = 0 THEN Append(@, s.lowFor)
                         ELSE @,
              !.lowFor = 0, !.TCCR0B = 0, !.TIFR0 = 0]

\* TCNT0 = 0; TCCR0B |= 0x01; (the back porch of hsync is timed)
startTimer0(s) == [s EXCEPT !.TCNT0 = 0, !.TCCR0B = @ + (1 - (@ % 2))]

\* TCCR0B = 0x00; TIFR0 |= 0x02;
stopTimer0(s) == [s EXCEPT !.TCCR0B = 0, !.TIFR0 = 0]

\* A half-line tick that counts a whole line.
halfLineEveryTick(s) ==
    [s EXCEPT !.scanLine = U16(s.scanLine + 1), !.halfLineCounter = 0]

\* halfLineCounter++; if (halfLineCounter == 2) { scanLine++; halfLineCounter = 0; }
halfLine(s) ==
    LET h == U8(s.halfLineCounter + 1)
    IN  IF h = 2
        THEN [s EXCEPT !.scanLine = U16(s.scanLine + 1), !.halfLineCounter = 0]
        ELSE [s EXCEPT !.halfLineCounter = h]

\* A switch on the line read before the counters are advanced.
equalizingSwitchFirst(s) ==
    LET w == [s EXCEPT !.OCR0A = EQUWIDTH]
        t == CASE w.scanLine = 4  -> [w EXCEPT !.syncHandler = "vsync",
                                               !.OCR1A = HSYNCHALF]
               [] w.scanLine = 10 -> [w EXCEPT !.syncHandler = "hsync",
                                               !.OCR1A = HSYNC]
               [] OTHER -> w
    IN  halfLine(t)

\* An equalizing that hands over to hsync without the full line period.
equalizingKeepsPeriod(s) ==
    LET w == endPulse(waitCompare(startPulse(s, EQUWIDTH)))
        t == halfLine(w)
    IN  CASE t.scanLine = 4  -> [t EXCEPT !.syncHandler = "vsync",
                                          !.OCR1A = HSYNCHALF]
          [] t.scanLine = 10 -> [t EXCEPT !.syncHandler = "hsync"]
          [] OTHER -> t

\* equalizing(): a pulse of EQUWIDTH, the half-line count, the switch on scanLine
equalizing(s) ==
    LET w == endPulse(waitCompare(startPulse(s, EQUWIDTH)))
        t == halfLine(w)
    IN  CASE t.scanLine = 4  -> [t EXCEPT !.syncHandler = "vsync",
                                          !.OCR1A = HSYNCHALF]
          [] t.scanLine = 10 -> [t EXCEPT !.syncHandler = "hsync",
                                          !.OCR1A = HSYNC]
          [] OTHER -> t

\* A vertical sync that hands back to equalizing one line early.
vsyncBackEarly(s) ==
    LET w == startPulse(s, VSYNCWIDTH)
        t == halfLine(w)
    IN  endPulse(waitCompare(
            IF t.scanLine = 6 THEN [t EXCEPT !.syncHandler = "equalizing"]
            ELSE t))

\* vsync(): a pulse of VSYNCWIDTH, the half-line count, back to equalizing at 7
vsync(s) ==
    LET w == startPulse(s, VSYNCWIDTH)
        t == halfLine(w)
    IN  endPulse(waitCompare(
            IF t.scanLine = 7 THEN [t EXCEPT !.syncHandler = "equalizing"]
            ELSE t))

\* The render window opening one line late.
hsyncSkipLate(line) ==
    IF (line <= STARTRENDER) \/ (line > STOPRENDER) THEN 1 ELSE 0

\* if ((scanLine < STARTRENDER) || (scanLine > STOPRENDER)) skipRendering = 1; else 0
hsyncSkip(line) ==
    IF (line < STARTRENDER) \/ (line > STOPRENDER) THEN 1 ELSE 0

\* A field that ends one line early.
hsyncWrapEarly(s) ==
    LET w == [s EXCEPT !.OCR0A = SYNCWIDTH,
                       !.skipRendering = hsyncSkip(s.scanLine)]
        t == [w EXCEPT !.scanLine = U16(w.scanLine + 1)]
    IN  IF t.scanLine >= LASTLINE
        THEN [t EXCEPT !.syncHandler = "equalizing", !.scanLine = FIRSTLINE,
                       !.OCR1A = HSYNCHALF, !.skipRendering = 1]
        ELSE t

\* hsync(): a pulse of SYNCWIDTH, the render window, the line count, the wrap
hsync(s) ==
    LET w == [startPulse(s, SYNCWIDTH) EXCEPT
                 !.skipRendering = hsyncSkip(s.scanLine)]
        p == startTimer0(endPulse(waitCompare(w)))
        t == [p EXCEPT !.scanLine = U16(p.scanLine + 1)]
    IN  stopTimer0(waitCompare(
            IF t.scanLine > LASTLINE
            THEN [t EXCEPT !.syncHandler = "equalizing", !.scanLine = FIRSTLINE,
                           !.OCR1A = HSYNCHALF, !.skipRendering = 1]
            ELSE t))

\* for (byteCount = 1; byteCount < PIXELBYTES; byteCount++) UDR0 = video[byteCount];
RECURSIVE rendererLoop(_, _)
rendererLoop(byteCount, log) ==
    IF byteCount < PIXELBYTES
    THEN rendererLoop(byteCount + 1, Append(log, <<byteCount, video[byteCount]>>))
    ELSE log

\* A renderer without the zero written ahead of the pixel bytes.
rendererNoLead(skip) ==
    IF skip # 0 THEN <<>>
    ELSE Append(rendererLoop(1, <<<<0, video[0]>>>>), <<-1, 0>>)

\* renderer(): the writes to UDR0, in order
renderer(skip) ==
    IF skip # 0 THEN <<>>
    ELSE Append(rendererLoop(1, <<<<-1, 0>>, <<0, video[0]>>>>), <<-1, 0>>)

\* A game() that returns without hooking idle().
hookIdleMissing(f) == f

\* game(): activeFunction = &idle;
hookIdle(f) == "idle"

\* The scheduler hooks game() when a handler ends the field.
hookGame(w, f) == IF w THEN "game" ELSE f

SyncInit ==
    /\ scanLine = FIRSTLINE
    /\ halfLineCounter = 0
    /\ skipRendering = 1
    /\ syncHandler = "equalizing"
    /\ OCR1A = HSYNCHALF
    /\ OCR0A = SYNCWIDTH
    /\ PORTD = 4 /\ TCCR0B = 0 /\ TCNT0 = 0 /\ TIFR0 = 0
    /\ pulses = <<>>
    /\ activeFunction = "idle"
    /\ pc = "sync"
    /\ tickHandler = "none"
    /\ entryLine = 0
    /\ udrLog = <<>>
    /\ gameRan = FALSE
    /\ wrapped = FALSE
    /\ fieldTime = 0
    /\ nEqu = 0 /\ nVs = 0 /\ nHs = 0
    /\ nRendered = 0
    /\ nGame = 0
    /\ fieldsDone = 0
    /\ seen = {}

\* a count of the field, restarted by the first tick after the wrap
InField(n) == IF wrapped THEN 0 ELSE n

\* The handler named by syncHandler runs to its end and leaves t.
Handled(t, w) ==
    /\ pc = "sync"
    /\ t.returns
    /\ PORTD' = t.PORTD /\ TCCR0B' = t.TCCR0B /\ TCNT0' = t.TCNT0
    /\ TIFR0' = t.TIFR0 /\ pulses' = t.pulses
    /\ scanLine' = t.scanLine
    /\ halfLineCounter' = t.halfLineCounter
    /\ skipRendering' = t.skipRendering
    /\ syncHandler' = t.syncHandler
    /\ OCR1A' = t.OCR1A
    /\ OCR0A' = t.OCR0A
    /\ pc' = "render"
    /\ tickHandler' = syncHandler
    /\ entryLine' = scanLine
    /\ udrLog' = <<>>
    /\ gameRan' = FALSE
    /\ wrapped' = w
    /\ fieldTime' = InField(fieldTime) + t.OCR1A
    /\ nEqu' = InField(nEqu) + (IF syncHandler = "equalizing" THEN 1 ELSE 0)
    /\ nVs' = InField(nVs) + (IF syncHandler = "vsync" THEN 1 ELSE 0)
    /\ nHs' = InField(nHs) + (IF syncHandler = "hsync" THEN 1 ELSE 0)
    /\ nRendered' = InField(nRendered)
    /\ nGame' = InField(nGame)
    /\ fieldsDone' = IF w /\ fieldsDone < MaxFields THEN fieldsDone + 1
                     ELSE fieldsDone
    /\ seen' = seen \cup {<<scanLine, syncHandler, t.OCR0A>>}
    /\ UNCHANGED activeFunction

TickEqualizing ==
    /\ syncHandler = "equalizing"
    /\ Handled(equalizing(SyncState), FALSE)
    /\ UNCHANGED <<pixVars, gameVars>>

TickVsync ==
    /\ syncHandler = "vsync"
    /\ Handled(vsync(SyncState), FALSE)
    /\ UNCHANGED <<pixVars, gameVars>>

TickHsync ==
    /\ syncHandler = "hsync"
    /\ Handled(hsync(SyncState), hsync(SyncState).syncHandler = "equalizing")
    /\ UNCHANGED <<pixVars, gameVars>>

Renderer ==
    /\ pc = "render"
    /\ udrLog' = renderer(skipRendering)
    /\ nRendered' = nRendered + (IF udrLog' # <<>> THEN 1 ELSE 0)
    /\ pc' = "active"
    /\ UNCHANGED <<scanLine, halfLineCounter, skipRendering, syncHandler,
                   OCR1A, OCR0A, activeFunction, tickHandler, entryLine,
                   gameRan, wrapped, fieldTime, nEqu, nVs, nHs, nGame,
                   fieldsDone, seen, timerVars>>
    /\ UNCHANGED <<pixVars, gameVars>>

RunGame ==
    /\ pc = "active"
    /\ hookGame(wrapped, activeFunction) = "game"
    /\ activeFunction' = hookIdle(hookGame(wrapped, activeFunction))
    /\ gameRan' = TRUE
    /\ nGame' = nGame + 1
    /\ pc' = "sync"
    /\ UNCHANGED <<scanLine, halfLineCounter, skipRendering, syncHandler,
                   OCR1A, OCR0A, tickHandler, entryLine, udrLog, wrapped,
                   fieldTime, nEqu, nVs, nHs, nRendered, fieldsDone, seen,
                   timerVars>>
    /\ UNCHANGED <<pixVars, gameVars>>

RunIdle ==
    /\ pc = "active"
    /\ hookGame(wrapped, activeFunction) = "idle"
    /\ pc' = "sync"
    /\ UNCHANGED <<scanLine, halfLineCounter, skipRendering, syncHandler,
                   OCR1A, OCR0A, activeFunction, tickHandler, entryLine,
                   udrLog, gameRan, wrapped, fieldTime, nEqu, nVs, nHs,
                   nRendered, nGame, fieldsDone, seen, timerVars>>
    /\ UNCHANGED <<pixVars, gameVars>>

(***************************************************************************)
(* PART II: videoutil.c                                                    *)
(***************************************************************************)

\* bytes of memory modelled at buffer[0 ..]
MemSize == 4

\* F of the value of e, with e evaluated once
With(e, F(_)) == CHOOSE r \in {F(v) : v \in {e}} : TRUE

\* bit k (0 = least significant) of byte b
Bit(b, k) == (b \div (2 ^ k)) % 2

\* uint8_t bitFlip[8] with the bits numbered from the wrong end
bitFlipReversed(i) == <<1, 2, 4, 8, 16, 32, 64, 128>>[i + 1]

\* uint8_t bitFlip[8] = {0x80, 0x40, 0x20, 0x10, 0x08, 0x04, 0x02, 0x01}
bitFlip(i) == <<128, 64, 32, 16, 8, 4, 2, 1>>[i + 1]

\* whether byte b has the single bit of pattern p set
HasBit(b, p) == (b \div p) % 2 = 1

\* b | p, b & ~p and b ^ p for a pattern p of one bit
OrBit(b, p) == IF HasBit(b, p) THEN b ELSE b + p
AndNotBit(b, p) == IF HasBit(b, p) THEN b - p ELSE b

\* An exclusive or written as an or.
XorBitAsOr(b, p) == OrBit(b, p)

XorBit(b, p) == IF HasBit(b, p) THEN b - p ELSE b + p

\* The state of memory an operation leaves: the bytes, and the places stored to.
Mem(buf, writes) == [buf |-> buf, writes |-> writes]

\* videoBuffer[index] = val
Store(m, index, val) ==
    Mem(IF videoBuffer = "buffer" /\ index \in DOMAIN m.buf
        THEN [m.buf EXCEPT ![index] = val] ELSE m.buf,
        m.writes \cup {<<videoBuffer, index>>})

\* videoBuffer[index], for an index the model holds
Load(m, index) == IF index \in DOMAIN m.buf THEN m.buf[index] ELSE 0

\* A bounds check that forgets the rows.
clippedColumnsOnly(x, y) == x > horisontalPixels

\* if ( x > horisontalPixels || y > verticalPixels ) return;
clipped(x, y) == x > horisontalPixels \/ y > verticalPixels

\* byteLocation = x / 8; index = (y * horizontalBytes) + byteLocation;
pixelIndex(x, y) == U16(y * horizontalBytes + U8(x \div 8))

\* pattern = bitFlip[(x - (byteLocation * 8))];
pixelPattern(x) == bitFlip(x - U8(x \div 8) * 8)

\* for (i = 0; i < bufferSize; i++) videoBuffer[i] = pattern;
RECURSIVE clearLoop(_, _, _)
clearLoop(m, i, pattern) ==
    IF i < bufferSize THEN clearLoop(Store(m, i, pattern), i + 1, pattern) ELSE m

clear(m, pattern) == IF initialized = 0 THEN m ELSE clearLoop(m, 0, pattern)

pset(m, x, y) ==
    IF initialized = 0 THEN m
    ELSE IF clipped(x, y) THEN m
    ELSE Store(m, pixelIndex(x, y),
               OrBit(Load(m, pixelIndex(x, y)), pixelPattern(x)))

preset(m, x, y) ==
    IF initialized = 0 THEN m
    ELSE IF clipped(x, y) THEN m
    ELSE Store(m, pixelIndex(x, y),
               AndNotBit(Load(m, pixelIndex(x, y)), pixelPattern(x)))

pflip(m, x, y) ==
    IF initialized = 0 THEN m
    ELSE IF clipped(x, y) THEN m
    ELSE Store(m, pixelIndex(x, y),
               XorBit(Load(m, pixelIndex(x, y)), pixelPattern(x)))

\* videoinit(buffer, hpixels, vpixels)
videoinit(w, h) ==
    [videoBuffer |-> "buffer",
     horisontalPixels |-> U16(w - 1),
     verticalPixels |-> U16(h - 1),
     horizontalBytes |-> U8(w \div 8),
     bufferSize |-> U16((w \div 8) * h),
     initialized |-> 1]

\* a 16-bit unsigned value read as an int, and C's abs() and / on ints
I16(u) == IF u >= 32768 THEN u - 65536 ELSE u
abs(v) == IF v < 0 THEN -v ELSE v
DivTrunc(a, b) == IF a >= 0 THEN a \div b ELSE -((-a) \div b)

\* steps of line()'s loop the model follows before it gives the loop up
MaxLineSteps == 12

\* The loop of line() with the test for the end point ahead of pset.
RECURSIVE lineLoopBreakFirst(_, _, _, _, _, _, _)
lineLoopBreakFirst(r, x0, y0, err, e, d, fuel) ==
    IF x0 = e[1] /\ y0 = e[2] THEN [mem |-> r.mem, pts |-> r.pts, done |-> TRUE]
    ELSE LET m == pset(r.mem, x0, y0)
             pts == Append(r.pts, <<x0, y0>>)
             stepX == err > -d.dx
             stepY == err < d.dy
             err1 == IF stepX THEN err - d.dy ELSE err
             err2 == IF stepY THEN err1 + d.dx ELSE err1
         IN  IF fuel = 0 THEN [mem |-> m, pts |-> pts, done |-> FALSE]
             ELSE lineLoopBreakFirst([mem |-> m, pts |-> pts],
                          IF stepX THEN U16(x0 + d.sx + 65536) ELSE x0,
                          IF stepY THEN U16(y0 + d.sy + 65536) ELSE y0,
                          err2, e, d, fuel - 1)

\* for(;;) { pset(x0,y0); if (x0==x1 && y0==y1) break; e2 = err; ... }
RECURSIVE lineLoop(_, _, _, _, _, _, _)
lineLoop(r, x0, y0, err, e, d, fuel) ==
    LET m == pset(r.mem, x0, y0)
        pts == Append(r.pts, <<x0, y0>>)
    IN  IF x0 = e[1] /\ y0 = e[2] THEN [mem |-> m, pts |-> pts, done |-> TRUE]
        ELSE IF fuel = 0 THEN [mem |-> m, pts |-> pts, done |-> FALSE]
        ELSE LET e2 == err
                 stepX == e2 > -d.dx
                 stepY == e2 < d.dy
                 err1 == IF stepX THEN err - d.dy ELSE err
                 err2 == IF stepY THEN err1 + d.dx ELSE err1
             IN  lineLoop([mem |-> m, pts |-> pts],
                          IF stepX THEN U16(x0 + d.sx + 65536) ELSE x0,
                          IF stepY THEN U16(y0 + d.sy + 65536) ELSE y0,
                          err2, e, d, fuel - 1)

\* line() with the error term started from the minor axis.
lineErrSwapped(m, x0, y0, x1, y1) ==
    IF initialized = 0 THEN [mem |-> m, pts |-> <<>>, done |-> TRUE]
    ELSE LET dx == abs(I16(U16(x1 - x0 + 65536)))
             dy == abs(I16(U16(y1 - y0 + 65536)))
             d == [dx |-> dx, sx |-> IF x0 < x1 THEN 1 ELSE -1,
                   dy |-> dy, sy |-> IF y0 < y1 THEN 1 ELSE -1]
             err == DivTrunc(IF dx > dy THEN -dy ELSE dx, 2)
         IN  lineLoop([mem |-> m, pts |-> <<>>], x0, y0, err, <<x1, y1>>, d,
                      MaxLineSteps)

\* line(x0, y0, x1, y1)
line(m, x0, y0, x1, y1) ==
    IF initialized = 0 THEN [mem |-> m, pts |-> <<>>, done |-> TRUE]
    ELSE LET dx == abs(I16(U16(x1 - x0 + 65536)))
             dy == abs(I16(U16(y1 - y0 + 65536)))
             d == [dx |-> dx, sx |-> IF x0 < x1 THEN 1 ELSE -1,
                   dy |-> dy, sy |-> IF y0 < y1 THEN 1 ELSE -1]
             err == DivTrunc(IF dx > dy THEN dx ELSE -dy, 2)
         IN  lineLoop([mem |-> m, pts |-> <<>>], x0, y0, err, <<x1, y1>>, d,
                      MaxLineSteps)

FONTBYTES == 7

\* uint8_t font[70]
font == <<112, 136, 136, 136, 136, 136, 112,
          16, 48, 16, 16, 16, 16, 16,
          112, 136, 8, 112, 128, 128, 248,
          112, 136, 8, 48, 8, 136, 112,
          16, 144, 144, 144, 248, 16, 16,
          248, 128, 128, 240, 8, 136, 112,
          112, 136, 128, 240, 136, 136, 112,
          248, 8, 16, 32, 64, 128, 128,
          112, 136, 136, 112, 136, 136, 112,
          112, 136, 136, 120, 8, 136, 112>>

\* The loop of the digit writer storing the font rows in successive bytes.
RECURSIVE writeLoopPacked(_, _, _, _)
writeLoopPacked(m, i, indexVid, indexFont) ==
    IF i < FONTBYTES
    THEN With(Store(m, indexVid, font[indexFont + 1]),
              LAMBDA m1 : writeLoopPacked(m1, i + 1, U16(indexVid + 1),
                                          indexFont + 1))
    ELSE m

\* for (i = 0; i < FONTBYTES; i++, indexVid += horizontalBytes, indexFont++)
RECURSIVE writeLoop(_, _, _, _)
writeLoop(m, i, indexVid, indexFont) ==
    IF i < FONTBYTES
    THEN With(Store(m, indexVid, font[indexFont + 1]),
              LAMBDA m1 : writeLoop(m1, i + 1, U16(indexVid + horizontalBytes),
                                    indexFont + 1))
    ELSE m

\* The digit writer without the test of the character.
writeAnyChar(m, x, y, text) ==
    writeLoop(m, 0, U16((x \div 8) + horizontalBytes * y),
              ((U8(text) - 48) % 10) * FONTBYTES)

\* write(x, y, text): the digit writer
write(m, x, y, text) ==
    IF U8(text) < 48 \/ U8(text) > 57 THEN m
    ELSE writeLoop(m, 0, U16((x \div 8) + horizontalBytes * y),
                   (U8(text) - 48) * FONTBYTES)

(***************************************************************************)
(* The calls a client makes, with arguments from small sets.               *)
(***************************************************************************)
Widths == {8, 12, 16}
Heights == {1, 2}
XCoords == {0, 7, 8, 11, 12, 15, 16, 65535}
YCoords == {0, 1, 2, 65535}
Patterns == {0, 255, 165}
LineXs == {0, 9}
LineYs == {0, 1, 2}
WriteXs == {0, 8}
Chars == {0, 47, 48, 53, 57, 58, 255}

PixInit ==
    /\ horisontalPixels = 0 /\ verticalPixels = 0
    /\ horizontalBytes = 0 /\ bufferSize = 0
    /\ videoBuffer = "null"
    /\ initialized = 0
    /\ vram = [i \in 0 .. MemSize - 1 |-> 0]
    /\ hpixels = 0 /\ vpixels = 0
    /\ lastOp = "none" /\ argX = 0 /\ argY = 0 /\ argC = 0
    /\ prevVram = [i \in 0 .. MemSize - 1 |-> 0]
    /\ lastWrites = {}
    /\ linePts = <<>>
    /\ lineDone = TRUE
    /\ opCount = 0

\* One more drawing operation is counted.
Counted ==
    /\ opCount < MaxOps
    /\ opCount' = opCount + 1

\* Operation op with arguments (x, y, c) ran and left memory m.
Applied(op, x, y, c, m) ==
    /\ lastOp' = op /\ argX' = x /\ argY' = y /\ argC' = c
    /\ prevVram' = vram
    /\ vram' = m.buf
    /\ lastWrites' = m.writes
    /\ UNCHANGED <<horisontalPixels, verticalPixels, horizontalBytes,
                   bufferSize, videoBuffer, initialized, hpixels, vpixels>>
    /\ UNCHANGED <<syncVars, gameVars>>

Now == Mem(vram, {})

VideoInit ==
    /\ initialized = 0
    /\ \E w \in Widths, h \in Heights :
         LET v == videoinit(w, h)
         IN  /\ videoBuffer' = v.videoBuffer
             /\ horisontalPixels' = v.horisontalPixels
             /\ verticalPixels' = v.verticalPixels
             /\ horizontalBytes' = v.horizontalBytes
             /\ bufferSize' = v.bufferSize
             /\ initialized' = v.initialized
             /\ hpixels' = w /\ vpixels' = h
    /\ lastOp' = "videoinit" /\ argX' = 0 /\ argY' = 0 /\ argC' = 0
    /\ prevVram' = vram
    /\ lastWrites' = {}
    /\ UNCHANGED <<vram, linePts, lineDone, opCount>>
    /\ UNCHANGED <<syncVars, gameVars>>

Clear ==
    /\ \E p \in Patterns : Applied("clear", 0, 0, p, clear(Now, p))
    /\ UNCHANGED <<linePts, lineDone, opCount>>

Pset ==
    /\ Counted
    /\ \E x \in XCoords, y \in YCoords : Applied("pset", x, y, 0, pset(Now, x, y))
    /\ UNCHANGED <<linePts, lineDone>>

Preset ==
    /\ Counted
    /\ \E x \in XCoords, y \in YCoords :
         Applied("preset", x, y, 0, preset(Now, x, y))
    /\ UNCHANGED <<linePts, lineDone>>

Pflip ==
    /\ Counted
    /\ \E x \in XCoords, y \in YCoords :
         Applied("pflip", x, y, 0, pflip(Now, x, y))
    /\ UNCHANGED <<linePts, lineDone>>

Line ==
    /\ Counted
    /\ \E x0 \in LineXs, y0 \in LineYs, x1 \in LineXs, y1 \in LineYs :
         LET r == line(Now, x0, y0, x1, y1)
         IN  /\ Applied("line", x0, y0, <<x1, y1>>, r.mem)
             /\ linePts' = r.pts
             /\ lineDone' = r.done

Write ==
    /\ Counted
    /\ \E x \in WriteXs, y \in LineYs, c \in Chars :
         Applied("write", x, y, c, write(Now, x, y, c))
    /\ UNCHANGED <<linePts, lineDone>>

\* the largest coordinate of the lines drawn inside a bounded range
MaxCoord == 4
LineCoords == 0 .. MaxCoord
\* coordinates of end points in and far outside the buffer
FarXs == {0, 3, 9, 65535}
FarYs == {0, 1, 5, 65535}

\* line() is studied one call at a time: the call is the first operation
FirstOp ==
    /\ opCount = 0
    /\ opCount' = opCount + 1

\* line() between two points of the bounded range
LineIn ==
    /\ FirstOp
    /\ \E x0 \in LineCoords, y0 \in LineCoords, x1 \in LineCoords,
          y1 \in LineCoords :
         LET r == line(Now, x0, y0, x1, y1)
         IN  /\ Applied("line", x0, y0, <<x1, y1>>, r.mem)
             /\ linePts' = r.pts
             /\ lineDone' = r.done

\* line() with end points that may lie outside the buffer
LineOut ==
    /\ FirstOp
    /\ \E x0 \in FarXs, y0 \in FarYs, x1 \in FarXs, y1 \in FarYs :
         LET r == line(Now, x0, y0, x1, y1)
         IN  /\ Applied("line", x0, y0, <<x1, y1>>, r.mem)
             /\ linePts' = r.pts
             /\ lineDone' = r.done

(***************************************************************************)
(* PART III: ponggame.c                                                    *)
(***************************************************************************)
SERVECYCLE == 20
BALLVELOCITY == 3
NOSERVE == 0
RIGHTSERVE == 1
LEFTSERVE == 2
UP == 0
DOWN == 1
NONE == 0
LEFT == 1
RIGHT == 2

\* ponggame.h
TOP == 1
BOTTOM == 59
RIGHTSCORE == 4
LEFTSCORE == -12
RPADINIT == 29
RPADCOL == 1
LPADINIT == 29
LPADCOL == 86
HALFPAD == 3

\* the buffer of the game: 11 bytes a row, 240 / 3 rows
GameW == 88
GameH == 80

\* a value computed in a 16-bit int
Int16(v) == I16(U16(v))

\* uint16_t getXres(): the largest pixel column
getXres == horisontalPixels

\* writechar(x, y, text): the digit writer under the name of videoutil.h
writechar(m, x, y, text) == write(m, x, y, text)

\* the quotients a division by zero is followed with
DivZeroQuotients == {-1, 0, 1}
\* divisions by zero through which game() is followed
MaxUndefined == 1

\* a / b on ints, with z standing for the quotient when b is 0
Quot(a, b, z) == IF b = 0 THEN z ELSE DivTrunc(a, b)

\* rightPadTarget = (rightPaddle / 5) + 5;
padTarget(sample) == U8(sample \div 5 + 5)

\* A paddle that is drawn at its target at once.
movePaddleJump(col, cur, target) ==
    IF cur = target THEN [center |-> cur, calls |-> <<>>]
    ELSE [center |-> target,
          calls |-> << <<"pflip", col, cur + HALFPAD>>,
                     <<"pflip", col, target + HALFPAD>> >>]

\* if (cur > target) { pflip(col, cur+HALFPAD); cur--; pflip(col, cur-HALFPAD); }
\* else if (cur < target) { pflip(col, cur-HALFPAD); cur++; pflip(col, cur+HALFPAD); }
movePaddle(col, cur, target) ==
    IF cur > target
    THEN LET first == U16(cur + HALFPAD)
             c == U8(cur - 1)
             second == U16(c - HALFPAD)
         IN  [center |-> c,
              calls |-> << <<"pflip", col, first>>, <<"pflip", col, second>> >>]
    ELSE IF cur < target
    THEN LET first == U16(cur - HALFPAD)
             c == U8(cur + 1)
             second == U16(c + HALFPAD)
         IN  [center |-> c,
              calls |-> << <<"pflip", col, first>>, <<"pflip", col, second>> >>]
    ELSE [center |-> cur, calls |-> <<>>]

\* dx = abs(ballX1-ballX0); sx = ballX0<ballX1 ? 1 : -1;
\* dy = abs(ballY1-ballY0); sy = ballY0<ballY1 ? 1 : -1;
\* err = (dx>dy ? dx : -dy)/2;
trajectory(b) ==
    LET ndx == abs(Int16(b.ballX1 - b.ballX0))
        ndy == abs(Int16(b.ballY1 - b.ballY0))
    IN  [b EXCEPT !.dx = ndx, !.sx = IF b.ballX0 < b.ballX1 THEN 1 ELSE -1,
                  !.dy = ndy, !.sy = IF b.ballY0 < b.ballY1 THEN 1 ELSE -1,
                  !.err = DivTrunc(IF ndx > ndy THEN ndx ELSE -ndy, 2)]

\* the ball is at a paddle's hit column, inside the span of the paddle
atPaddle(b, col, center) ==
    /\ b.ballX0 = col
    /\ b.ballY0 <= center + HALFPAD
    /\ b.ballY0 >= center - HALFPAD

\* ballX0 -= sx; ballY0 += sy; ballY1 = (sy == 1) ? (BOTTOM-1) : (TOP+1);
\* ballX1 = ballX0 + ((-1 * sx * abs(ballY0-ballY1) * dx) / dy);
reflectPaddle(b, z) ==
    LET x0 == Int16(b.ballX0 - b.sx)
        y0 == Int16(b.ballY0 + b.sy)
        y1 == IF b.sy = 1 THEN BOTTOM - 1 ELSE TOP + 1
        x1 == Int16(x0 + Quot(Int16(-1 * b.sx * abs(Int16(y0 - y1)) * b.dx),
                              b.dy, z))
    IN  trajectory([b EXCEPT !.ballX0 = x0, !.ballY0 = y0,
                             !.ballX1 = x1, !.ballY1 = y1])

\* ballX0 += sx; ballY0 -= sy; ballX1 = (sx == 1) ? (RPADCOL+1) : (LPADCOL-1);
\* ballY1 = ballY0 + ((-1 * sy * abs(ballX0-ballX1) * dy) / dx);
reflectWall(b, z) ==
    LET x0 == Int16(b.ballX0 + b.sx)
        y0 == Int16(b.ballY0 - b.sy)
        x1 == IF b.sx = 1 THEN RPADCOL + 1 ELSE LPADCOL - 1
        y1 == Int16(y0 + Quot(Int16(-1 * b.sy * abs(Int16(x0 - x1)) * b.dy),
                              b.dx, z))
    IN  trajectory([b EXCEPT !.ballX0 = x0, !.ballY0 = y0,
                             !.ballX1 = x1, !.ballY1 = y1])

\* case RIGHTSERVE / case LEFTSERVE: the ball starts beside the paddle of
\* column col, at its center, toward the middle of the top or bottom wall
serve(b, col, center, offset, dir) ==
    trajectory([b EXCEPT !.ballX0 = col, !.ballY0 = center,
                         !.ballX1 = Int16((getXres \div 2) + offset),
                         !.ballY1 = IF dir = UP THEN TOP + 1 ELSE BOTTOM - 1])

\* e2 = err; if (e2 >-dx) { err -= dy; ballX0 += sx; }
\*           if (e2 < dy) { err += dx; ballY0 += sy; }
stepBall(b) ==
    LET stepX == b.err > -b.dx
        stepY == b.err < b.dy
        err1 == IF stepX THEN Int16(b.err - b.dy) ELSE b.err
        err2 == IF stepY THEN Int16(err1 + b.dx) ELSE err1
    IN  [b EXCEPT !.e2 = b.err, !.err = err2,
                  !.ballX0 = IF stepX THEN Int16(b.ballX0 + b.sx) ELSE b.ballX0,
                  !.ballY0 = IF stepY THEN Int16(b.ballY0 + b.sy) ELSE b.ballY0]

\* A serve offset that wraps one step late.
nextServeOffsetLate(offset) ==
    IF offset + 1 > SERVECYCLE + 1 THEN -SERVECYCLE ELSE offset + 1

\* serveOffset++; if (serveOffset > SERVECYCLE) serveOffset = -SERVECYCLE;
nextServeOffset(offset) ==
    IF offset + 1 > SERVECYCLE THEN -SERVECYCLE ELSE offset + 1

\* serveDir = (serveDir==UP) ? DOWN : UP;
nextServeDir(dir) == IF dir = UP THEN DOWN ELSE UP

\* A ball that moves one invocation early.
ballMovesEarly(cycles) == cycles >= BALLVELOCITY - 1

\* if ( ballSkipCycles == BALLVELOCITY )
ballMoves(cycles) == cycles = BALLVELOCITY

\* The drawing calls game() makes are kept as <<"pflip", x, y>>,
\* <<"preset", x, y>> and <<"writechar", x, y, text>>, in the order made.
drawCall(m, c) ==
    IF c[1] = "pflip" THEN pflip(m, c[2], c[3])
    ELSE IF c[1] = "preset" THEN preset(m, c[2], c[3])
    ELSE writechar(m, c[2], c[3], c[4])

\* memory m after the calls cs
RECURSIVE draw(_, _)
draw(m, cs) ==
    IF cs = <<>> THEN m
    ELSE With(drawCall(m, Head(cs)), LAMBDA m1 : draw(m1, Tail(cs)))

\* A score that is counted up without going back to 0.
updateScoreNoWrap(S) ==
    IF S.scoringFlag = RIGHT
    THEN [state |-> [S EXCEPT !.rightScore = U8(@ + 1)],
          calls |-> << <<"writechar", U16(((getXres + 1) \div 2) + RIGHTSCORE),
                         3, 48 + U8(S.rightScore + 1)>> >>]
    ELSE IF S.scoringFlag = LEFT
    THEN [state |-> [S EXCEPT !.leftScore = U8(@ + 1)],
          calls |-> << <<"writechar", U16(((getXres + 1) \div 2) + LEFTSCORE),
                         3, 48 + U8(S.leftScore + 1)>> >>]
    ELSE [state |-> S, calls |-> <<>>]

\* switch (scoringFlag): the score of the side that scored goes up, back to 0
\* after 9, and its digit is written
updateScore(S) ==
    IF S.scoringFlag = RIGHT
    THEN LET n == IF U8(S.rightScore + 1) = 10 THEN 0 ELSE U8(S.rightScore + 1)
             x == U16(((getXres + 1) \div 2) + RIGHTSCORE)
         IN  [state |-> [S EXCEPT !.rightScore = n],
              calls |-> << <<"writechar", x, 3, 48 + n>> >>]
    ELSE IF S.scoringFlag = LEFT
    THEN LET n == IF U8(S.leftScore + 1) = 10 THEN 0 ELSE U8(S.leftScore + 1)
             x == U16(((getXres + 1) \div 2) + LEFTSCORE)
         IN  [state |-> [S EXCEPT !.leftScore = n],
              calls |-> << <<"writechar", x, 3, 48 + n>> >>]
    ELSE [state |-> S, calls |-> <<>>]

\* the NOSERVE case of switch (serveFlag): what the ball has met
missRight(S) == S.serveFlag = NOSERVE /\ S.ball.ballX0 = RPADCOL + 1
missLeft(S) ==
    S.serveFlag = NOSERVE /\ ~missRight(S) /\ S.ball.ballX0 = LPADCOL - 1
hit(S) ==
    /\ S.serveFlag = NOSERVE /\ ~missRight(S) /\ ~missLeft(S)
    /\ \/ atPaddle(S.ball, LPADCOL + 1, S.curLeftPadCenter)
       \/ atPaddle(S.ball, RPADCOL - 1, S.curRightPadCenter)
wall(S) ==
    /\ S.serveFlag = NOSERVE /\ ~missRight(S) /\ ~missLeft(S) /\ ~hit(S)
    /\ S.ball.ballY0 \in {TOP + 1, BOTTOM - 1}

\* A serve that leaves the score flag as the miss set it.
scoringFlagKept(S) ==
    IF missRight(S) THEN LEFT
    ELSE IF missLeft(S) THEN RIGHT
    ELSE S.scoringFlag

\* scoringFlag = LEFT / RIGHT at a miss, scoringFlag = NONE at a serve
newScoringFlag(S) ==
    IF missRight(S) THEN LEFT
    ELSE IF missLeft(S) THEN RIGHT
    ELSE IF S.serveFlag = NOSERVE THEN S.scoringFlag ELSE NONE

\* switch (serveFlag) and the step that follows it: the ball after the
\* invocation, with offset and dir the new serveOffset and serveDir and z
\* the quotient of a division by zero
nextBall(S, offset, dir, z) ==
    stepBall(IF S.serveFlag = RIGHTSERVE
             THEN serve(S.ball, RPADCOL - 1, S.curRightPadCenter, offset, dir)
             ELSE IF S.serveFlag = LEFTSERVE
             THEN serve(S.ball, LPADCOL + 1, S.curLeftPadCenter, offset, dir)
             ELSE IF hit(S) THEN reflectPaddle(S.ball, z)
             ELSE IF wall(S) THEN reflectWall(S.ball, z)
             ELSE S.ball)

\* the body of "if ( ballSkipCycles == BALLVELOCITY )", with b3 the ball it
\* leaves
ballMoved(S, b3) ==
    LET x == U16(S.ball.ballX0)
        y == U16(S.ball.ballY0)
        miss == missRight(S) \/ missLeft(S)
        flag == IF missRight(S) THEN LEFTSERVE
                ELSE IF missLeft(S) THEN RIGHTSERVE ELSE NOSERVE
        sc == updateScore(
                  [S EXCEPT !.ballSkipCycles = 0,
                            !.serveOffset = nextServeOffset(S.serveOffset),
                            !.serveDir = nextServeDir(S.serveDir),
                            !.ball = b3,
                            !.serveFlag = flag,
                            !.scoringFlag = newScoringFlag(S)])
    IN  [state |-> sc.state,
         calls |-> << <<"pflip", x, y>> >>
                   \o (IF miss THEN << <<"preset", x, y>> >> ELSE <<>>)
                   \o (IF flag = NOSERVE
                       THEN << <<"pflip", U16(b3.ballX0), U16(b3.ballY0)>> >>
                       ELSE <<>>)
                   \o sc.calls,
         event |-> IF S.serveFlag # NOSERVE THEN "serve"
                   ELSE IF miss THEN "miss"
                   ELSE IF hit(S) THEN "hit"
                   ELSE IF wall(S) THEN "wall" ELSE "move",
         undefined |-> \/ hit(S) /\ S.ball.dy = 0
                       \/ wall(S) /\ S.ball.dx = 0]

moveBall(S, z) ==
    With(nextBall(S, nextServeOffset(S.serveOffset), nextServeDir(S.serveDir), z),
         LAMBDA b3 : ballMoved(S, b3))

\* the paddles have moved and ballSkipCycles has been counted up: the rest
\* of game()
afterPaddles(S, padCalls, z) ==
    IF ballMoves(S.ballSkipCycles)
    THEN With(moveBall(S, z),
              LAMBDA mv : [state |-> mv.state,
                           calls |-> [padCalls EXCEPT !.ball = mv.calls],
                           advanced |-> TRUE, event |-> mv.event,
                           undefined |-> mv.undefined])
    ELSE [state |-> S, calls |-> padCalls, advanced |-> FALSE,
          event |-> "none", undefined |-> FALSE]

\* game(), with the ADC readings r and l of the right and the left paddle
game(S, r, l, z) ==
    LET right == movePaddle(RPADCOL, S.curRightPadCenter, padTarget(r))
        left == movePaddle(LPADCOL, S.curLeftPadCenter, padTarget(l))
    IN  With([S EXCEPT !.rightPaddle = r, !.leftPaddle = l,
                       !.rightPadTarget = padTarget(r),
                       !.leftPadTarget = padTarget(l),
                       !.curRightPadCenter = right.center,
                       !.curLeftPadCenter = left.center,
                       !.ballSkipCycles = U8(@ + 1)],
             LAMBDA S1 : afterPaddles(S1, [right |-> right.calls,
                                           left |-> left.calls,
                                           ball |-> <<>>], z))

\* The record of the last serve: the side it came from, the serveOffset and
\* serveDir it used, the row it started on, the steps the ball has made on
\* the served trajectory, and whether a miss or a reflection has ended it.
NoServeYet ==
    [from |-> NOSERVE, offset |-> 0, dir |-> UP, startY |-> 0, steps |-> 0,
     ended |-> TRUE]

\* the record after an invocation of game() in state S with result res
flight(f, S, res) ==
    IF res.event = "serve"
    THEN [from |-> S.serveFlag, offset |-> res.state.serveOffset,
          dir |-> res.state.serveDir,
          startY |-> IF S.serveFlag = RIGHTSERVE
                     THEN res.state.curRightPadCenter
                     ELSE res.state.curLeftPadCenter,
          steps |-> 1, ended |-> FALSE]
    ELSE IF res.event = "move" /\ ~f.ended THEN [f EXCEPT !.steps = @ + 1]
    ELSE IF res.event \in {"miss", "hit", "wall"} THEN [f EXCEPT !.ended = TRUE]
    ELSE f

\* the globals of ponggame.c
GameState ==
    [rightPaddle |-> rightPaddle, leftPaddle |-> leftPaddle,
     rightPadTarget |-> rightPadTarget, curRightPadCenter |-> curRightPadCenter,
     leftPadTarget |-> leftPadTarget, curLeftPadCenter |-> curLeftPadCenter,
     leftScore |-> leftScore, rightScore |-> rightScore,
     scoringFlag |-> scoringFlag, ball |-> ball, serveOffset |-> serveOffset,
     serveDir |-> serveDir, ballSkipCycles |-> ballSkipCycles,
     serveFlag |-> serveFlag]

\* the initializers of the globals (the uninitialized ones are zero)
GameInit ==
    /\ rightPaddle = 0 /\ leftPaddle = 0
    /\ rightPadTarget = 0 /\ curRightPadCenter = RPADINIT
    /\ leftPadTarget = 0 /\ curLeftPadCenter = LPADINIT
    /\ leftScore = 0 /\ rightScore = 0
    /\ scoringFlag = NONE
    /\ ball = [ballX0 |-> 0, ballY0 |-> 0, ballX1 |-> 0, ballY1 |-> 0,
               dx |-> 0, sx |-> 0, dy |-> 0, sy |-> 0, err |-> 0, e2 |-> 0]
    /\ serveOffset = -SERVECYCLE
    /\ serveDir = UP
    /\ ballSkipCycles = 0
    /\ serveFlag = RIGHTSERVE
    /\ adcRight = 0 /\ adcLeft = 0
    /\ gameOn = FALSE
    /\ calls = [right |-> <<>>, left |-> <<>>, ball |-> <<>>]
    /\ advanced = FALSE
    /\ served = NoServeYet
    /\ undefinedDivs = 0

\* positions of the knobs: the ends of their range and the middle, where
\* the paddle starts
Samples == {0, 120, 255}

\* the static scene drawn at startup: the boundary rows, the two paddles at
\* their initial centers and a '0' for each score
SceneLit(x, y) ==
    \/ y \in {TOP, BOTTOM}
    \/ x = RPADCOL /\ y \in RPADINIT - HALFPAD .. RPADINIT + HALFPAD
    \/ x = LPADCOL /\ y \in LPADINIT - HALFPAD .. LPADINIT + HALFPAD

Scene ==
    [i \in 0 .. (GameW \div 8) * GameH - 1 |->
        LET y == i \div (GameW \div 8)
            c == i % (GameW \div 8)
            lit(k) == IF SceneLit(c * 8 + k, y) THEN bitFlip(k) ELSE 0
        IN  IF /\ y \in 3 .. 3 + FONTBYTES - 1
               /\ c \in {(GameW \div 2 + RIGHTSCORE) \div 8,
                         (GameW \div 2 + LEFTSCORE) \div 8}
            THEN font[y - 3 + 1]
            ELSE lit(0) + lit(1) + lit(2) + lit(3) + lit(4) + lit(5) + lit(6)
                 + lit(7)]

\* startup of the game: the buffer is initialized and the scene drawn, with
\* the knobs wherever the players left them
GameSetup ==
    /\ ~gameOn
    /\ initialized = 0
    /\ LET v == videoinit(GameW, GameH)
       IN  /\ videoBuffer' = v.videoBuffer
           /\ horisontalPixels' = v.horisontalPixels
           /\ verticalPixels' = v.verticalPixels
           /\ horizontalBytes' = v.horizontalBytes
           /\ bufferSize' = v.bufferSize
           /\ initialized' = v.initialized
           /\ hpixels' = GameW /\ vpixels' = GameH
    /\ vram' = Scene /\ prevVram' = Scene
    /\ lastOp' = "setup" /\ lastWrites' = {}
    /\ \E r \in Samples, l \in Samples : adcRight' = r /\ adcLeft' = l
    /\ gameOn' = TRUE
    /\ UNCHANGED <<argX, argY, argC, linePts, lineDone, opCount>>
    /\ UNCHANGED <<rightPaddle, leftPaddle, rightPadTarget, curRightPadCenter,
                   leftPadTarget, curLeftPadCenter, leftScore, rightScore,
                   scoringFlag, ball, serveOffset, serveDir, ballSkipCycles,
                   serveFlag, calls, advanced, served, undefinedDivs>>
    /\ UNCHANGED syncVars

\* one invocation of game()
Game ==
    /\ gameOn
    /\ undefinedDivs < MaxUndefined
    /\ \E z \in DivZeroQuotients :
       \E res \in {game(GameState, adcRight, adcLeft, z)} :
       \E m \in {draw(Now, res.calls.right \o res.calls.left \o res.calls.ball)} :
             /\ res.undefined \/ z = 0
             /\ rightPaddle' = res.state.rightPaddle
             /\ leftPaddle' = res.state.leftPaddle
             /\ rightPadTarget' = res.state.rightPadTarget
             /\ curRightPadCenter' = res.state.curRightPadCenter
             /\ leftPadTarget' = res.state.leftPadTarget
             /\ curLeftPadCenter' = res.state.curLeftPadCenter
             /\ leftScore' = res.state.leftScore
             /\ rightScore' = res.state.rightScore
             /\ scoringFlag' = res.state.scoringFlag
             /\ ball' = res.state.ball
             /\ serveOffset' = res.state.serveOffset
             /\ serveDir' = res.state.serveDir
             /\ ballSkipCycles' = res.state.ballSkipCycles
             /\ serveFlag' = res.state.serveFlag
             /\ calls' = res.calls
             /\ advanced' = res.advanced
             /\ served' = flight(served, GameState, res)
             /\ undefinedDivs' = undefinedDivs + (IF res.undefined THEN 1 ELSE 0)
             /\ prevVram' = vram
             /\ vram' = m.buf
             /\ lastWrites' = m.writes
    /\ lastOp' = "game"
    /\ activeFunction' = hookIdle(activeFunction)
    /\ UNCHANGED <<adcRight, adcLeft, gameOn>>
    /\ UNCHANGED <<horisontalPixels, verticalPixels, horizontalBytes,
                   bufferSize, videoBuffer, initialized, hpixels, vpixels,
                   argX, argY, argC, linePts, lineDone, opCount>>
    /\ UNCHANGED <<scanLine, halfLineCounter, skipRendering, syncHandler,
                   OCR1A, OCR0A, pc, tickHandler, entryLine, udrLog, gameRan,
                   wrapped, fieldTime, nEqu, nVs, nHs, nRendered, nGame,
                   fieldsDone, seen, timerVars>>

(***************************************************************************)
(* The specifications.                                                     *)
(***************************************************************************)
Init == SyncInit /\ PixInit /\ GameInit

\* the video generator: main's loop of pong.c
Next == TickEqualizing \/ TickVsync \/ TickHsync \/ Renderer \/ RunGame \/ RunIdle

Spec == Init /\ [][Next]_vars

\* the drawing primitives of videoutil.c under any client
NextPix == VideoInit \/ Clear \/ Pset \/ Preset \/ Pflip \/ Line \/ Write

SpecPix == Init /\ [][NextPix]_vars

\* the game: its startup, then game() once a field
NextGame == GameSetup \/ Game

SpecGame == Init /\ [][NextGame]_vars

\* line() under any client
NextLine == VideoInit \/ LineIn \/ LineOut

SpecLine == Init /\ [][NextLine]_vars

(***************************************************************************)
(* CLAIMS about the scan-line state machine (under Spec).                  *)
(***************************************************************************)

\* C1: every field ends in exactly the state main starts from (scanLine =
\* FIRSTLINE, halfLineCounter = 0, syncHandler = equalizing, OCR1A =
\* HSYNCHALF, skipRendering = 1), and the tick periods of the field, both as
\* Timer1 was programmed and counted HSYNCHALF per equalizing or vsync tick
\* and HSYNC per hsync tick, sum to 262 line periods.
C1_FieldPeriodic ==
    wrapped =>
        /\ scanLine = FIRSTLINE
        /\ halfLineCounter = 0
        /\ syncHandler = "equalizing"
        /\ OCR1A = HSYNCHALF
        /\ skipRendering = 1
        /\ fieldTime = 262 * HSYNC
        /\ HSYNCHALF * (nEqu + nVs) + HSYNC * nHs = 262 * HSYNC

\* the second field has just ended and the loop is back at its tick boundary
C1_Witness == wrapped /\ pc = "sync" /\ fieldsDone = 2

\* C2: at the tick boundaries a scan line is never met with two different
\* handlers (nor, therefore, with two different pulse widths).
C2_HandlerByLine == Cardinality({p[1] : p \in seen}) = Cardinality(seen)

\* every line of the field has been met, and a second field is under way
C2_Witness ==
    /\ fieldsDone >= 1
    /\ tickHandler = "hsync" /\ entryLine = 100
    /\ {p[1] : p \in seen} = FIRSTLINE .. LASTLINE

\* C3: renderer() transmits on a tick exactly when the tick's handler was
\* hsync entered with STARTRENDER <= scanLine <= STOPRENDER; skipRendering is
\* 1 on every tick of equalizing and vsync; a field transmits
\* STOPRENDER - STARTRENDER + 1 lines.
C3_RenderWindow ==
    /\ (tickHandler # "none" /\ pc # "render") =>
          ((udrLog # <<>>) <=>
              (/\ tickHandler = "hsync"
               /\ STARTRENDER <= entryLine
               /\ entryLine <= STOPRENDER))
    /\ (tickHandler \in {"equalizing", "vsync"}) =>
          (skipRendering = 1 /\ udrLog = <<>>)
    /\ (syncHandler \in {"equalizing", "vsync"}) => skipRendering = 1
    /\ wrapped => nRendered = STOPRENDER - STARTRENDER + 1

\* the last line of the render window has been transmitted
C3_Witness ==
    /\ pc = "active" /\ tickHandler = "hsync" /\ entryLine = STOPRENDER
    /\ Len(udrLog) > 0
    /\ nRendered = STOPRENDER - STARTRENDER + 1

RowThenPad ==
    [k \in 1 .. PIXELBYTES + 1 |->
        IF k <= PIXELBYTES THEN <<k - 1, video[k - 1]>> ELSE <<-1, 0>>]

\* C5 as stated: on a rendered line the bytes written to UDR0 are the row's
\* PIXELBYTES bytes in index order and then one zero byte, nothing before
\* and nothing after.
C5_RowThenPadOnly == (udrLog # <<>>) => udrLog = RowThenPad

\* C5 as amended: on a rendered line the bytes written to UDR0 are one zero
\* byte, then video[0 .. PIXELBYTES-1] in index order, then one zero byte,
\* and nothing else.
C5_LeadRowPad == (udrLog # <<>>) => udrLog = <<<<-1, 0>>>> \o RowThenPad

\* the first line of the render window has been transmitted
C5_Witness ==
    /\ pc = "active" /\ Len(udrLog) = PIXELBYTES + 2
    /\ entryLine = STARTRENDER

\* the indices of video read for the writes of the tick
VideoIndices ==
    LET sel == SelectSeq(udrLog, LAMBDA e : e[1] >= 0)
    IN  [k \in 1 .. Len(sel) |-> sel[k][1]]

\* C6: the i-th transmitted line of a field (i from 0) sends the logical row
\* i / RENDERREP, that is the bytes from index (i / RENDERREP) * PIXELBYTES.
C6_LineRepeat ==
    (udrLog # <<>>) =>
        VideoIndices =
            [k \in 1 .. PIXELBYTES |->
                ((nRendered - 1) \div RENDERREP) * PIXELBYTES + k - 1]

(***************************************************************************)
(* CLAIMS about the drawing primitives (under SpecPix).                    *)
(***************************************************************************)

\* the last operation was one of ops, on an initialized buffer
PixelOp(ops) == initialized = 1 /\ lastOp \in ops
InBounds == argX < hpixels /\ argY < vpixels

\* bit j of byte i differs between the buffer before and after the last operation
Changed(i, j) == Bit(vram[i], j) # Bit(prevVram[i], j)

\* the byte and the bit (0 = least significant) of pixel (argX, argY)
PixByte == argY * horizontalBytes + argX \div 8
PixBit == 7 - (argX % 8)

\* C7: pset, preset and pflip at (x, y) with x >= W or y >= H leave every
\* byte unchanged (and store nothing).
C7_ClippedNoop ==
    (PixelOp({"pset", "preset", "pflip"}) /\ ~InBounds) =>
        (vram = prevVram /\ lastWrites = {})

\* pflip one column past the right edge of a buffer filled with a pattern
C7_Witness ==
    /\ PixelOp({"pflip"}) /\ argX = hpixels /\ argY < vpixels
    /\ prevVram[0] = 165 /\ vram = prevVram

\* C8: after an in-bounds pset the bit of the pixel (byte
\* y * horizontalBytes + x / 8, mask 0x80 >> (x mod 8)) is 1, after an
\* in-bounds preset it is 0, and no other bit changes.
C8_SetReset ==
    (PixelOp({"pset", "preset"}) /\ InBounds) =>
        /\ PixByte \in DOMAIN vram
        /\ Bit(vram[PixByte], PixBit) = (IF lastOp = "pset" THEN 1 ELSE 0)
        /\ \A i \in DOMAIN vram, j \in 0 .. 7 :
              Changed(i, j) => (i = PixByte /\ j = PixBit)

\* a preset that cleared a lit pixel in the second row
C8_Witness ==
    /\ PixelOp({"preset"}) /\ InBounds /\ argY = 1 /\ argX = 11
    /\ Changed(PixByte, PixBit)

\* C9: pflip(x, y) applied twice restores the whole buffer, for (x, y) in
\* bounds or not; one in-bounds pflip changes exactly the bit of its pixel.
C9_FlipTwice ==
    /\ \A x \in XCoords, y \in YCoords :
          pflip(Mem(pflip(Now, x, y).buf, {}), x, y).buf = vram
    /\ (PixelOp({"pflip"}) /\ InBounds) =>
          \A i \in DOMAIN vram, j \in 0 .. 7 :
              Changed(i, j) <=> (i = PixByte /\ j = PixBit)

\* an in-bounds pflip changed the buffer and a second one would restore it
C9_Witness ==
    /\ PixelOp({"pflip"}) /\ InBounds
    /\ vram # prevVram
    /\ pflip(Now, argX, argY).buf = prevVram

\* C10: before videoinit no drawing primitive (clear, pset, preset, pflip,
\* line, the digit writer) stores to memory.
C10_NoWriteBeforeInit == (initialized = 0) => lastWrites = {}

\* C11: after videoinit(buffer, W, H) the row stride every primitive uses is
\* ceil(W / 8) and the buffer size is ceil(W / 8) * H, for every W >= 1.
C11_CeilStride ==
    (initialized = 1) =>
        /\ horizontalBytes = (hpixels + 7) \div 8
        /\ bufferSize = ((hpixels + 7) \div 8) * vpixels

\* the characters that are not digits, as the uint8_t the writer tests
NonDigits == (0 .. 255) \ (48 .. 57)

\* C15: the digit writer leaves the buffer unchanged (and stores nothing)
\* for every character other than '0' .. '9', wherever it is asked to write.
C15_NonDigitNoop ==
    /\ (lastOp = "write" /\ argC \in NonDigits) =>
          (vram = prevVram /\ lastWrites = {})
    /\ (lastOp = "clear") =>
          \A c \in NonDigits, x \in WriteXs, y \in LineYs :
              write(Now, x, y, c) = Now

\* ':' was written to a buffer filled with a pattern
C15_Witness ==
    /\ PixelOp({"write"}) /\ argC = 58
    /\ prevVram[0] = 165 /\ vram = prevVram

\* C16: the digit writer never stores at an index >= bufferSize, whatever
\* (x, y) is.
C16_WriteInBuffer ==
    PixelOp({"write"}) => \A w \in lastWrites : w[2] < bufferSize

(***************************************************************************)
(* CLAIMS about line() (under SpecLine).                                   *)
(***************************************************************************)

\* the end points of the last line()
LX0 == argX
LY0 == argY
LX1 == argC[1]
LY1 == argC[2]
Max2(a, b) == IF a > b THEN a ELSE b
Min2(a, b) == IF a < b THEN a ELSE b
Sign(v) == IF v > 0 THEN 1 ELSE IF v < 0 THEN -1 ELSE 0

\* the last operation was a line() between points of the bounded range
LineInRange ==
    /\ PixelOp({"line"})
    /\ {LX0, LY0, LX1, LY1} \subseteq LineCoords

\* C12: for end points in a bounded range line() terminates and calls pset
\* on both end points: the first call is on (x0, y0), the last on (x1, y1).
C12_LineEndpoints ==
    LineInRange =>
        /\ lineDone
        /\ Len(linePts) >= 1
        /\ linePts[1] = <<LX0, LY0>>
        /\ linePts[Len(linePts)] = <<LX1, LY1>>

\* a steep line drawn right to left and bottom to top
C12_Witness ==
    /\ LineInRange /\ LX0 = 3 /\ LY0 = 4 /\ LX1 = 1 /\ LY1 = 0
    /\ lineDone /\ linePts[Len(linePts)] = <<1, 0>>

\* C13: consecutive points of line() differ by at most 1 in x and in y, and
\* by exactly 1 in the direction of the end point along the dominant axis;
\* there are max(|x1-x0|, |y1-y0|) + 1 points, one for line(x, y, x, y).
C13_LineChain ==
    LineInRange =>
        LET ddx == LX1 - LX0
            ddy == LY1 - LY0
        IN  /\ Len(linePts) = Max2(abs(ddx), abs(ddy)) + 1
            /\ \A k \in 1 .. Len(linePts) - 1 :
                  LET sx == linePts[k + 1][1] - linePts[k][1]
                      sy == linePts[k + 1][2] - linePts[k][2]
                  IN  /\ abs(sx) <= 1 /\ abs(sy) <= 1
                      /\ (abs(ddx) >= abs(ddy)) => sx = Sign(ddx)
                      /\ (abs(ddy) >= abs(ddx)) => sy = Sign(ddy)
            /\ (ddx = 0 /\ ddy = 0) => linePts = <<<<LX0, LY0>>>>

\* a shallow line drawn right to left, with both axes stepping
C13_Witness ==
    /\ LineInRange /\ LX0 = 4 /\ LY0 = 1 /\ LX1 = 0 /\ LY1 = 3
    /\ Len(linePts) = 5

\* pixel (px, py) lies on the segment between the end points of the last
\* line(): inside their bounding box and within half a pixel of the ideal line
OnSegment(px, py) ==
    /\ Min2(LX0, LX1) <= px /\ px <= Max2(LX0, LX1)
    /\ Min2(LY0, LY1) <= py /\ py <= Max2(LY0, LY1)
    /\ 2 * abs((px - LX0) * (LY1 - LY0) - (py - LY0) * (LX1 - LX0))
          <= Max2(abs(LX1 - LX0), abs(LY1 - LY0))

\* C14: line() with end points inside or outside the buffer terminates,
\* stores only inside the buffer, and changes only bits of in-bounds pixels
\* that lie on the segment.
C14_ClippedLine ==
    PixelOp({"line"}) =>
        /\ lineDone
        /\ \A w \in lastWrites : w[2] < bufferSize
        /\ \A i \in DOMAIN vram, j \in 0 .. 7 :
              Changed(i, j) =>
                  \E px \in 0 .. hpixels - 1, py \in 0 .. vpixels - 1 :
                      /\ OnSegment(px, py)
                      /\ i = py * horizontalBytes + px \div 8
                      /\ j = 7 - (px % 8)

(***************************************************************************)
(* CLAIMS about game() (under SpecGame).                                   *)
(***************************************************************************)

\* every reading the ADC can give, and the targets they stand for
AllSamples == 0 .. 255
AllTargets == {padTarget(r) : r \in AllSamples}

\* a paddle of column col centred at cur, asked to go to target, has its
\* center at next after the calls cs: one pixel nearer with two pflips in
\* its column, or where it was with no call when it is on target
PaddleLaw(col, cur, target, next, cs) ==
    IF cur = target THEN next = cur /\ cs = <<>>
    ELSE /\ next = cur + Sign(target - cur)
         /\ Len(cs) = 2
         /\ \A k \in 1 .. 2 : cs[k][1] = "pflip" /\ cs[k][2] = col

\* C17: in one game() each paddle moves by exactly 1 toward its target with
\* exactly two pflip calls when its center differs from the target, and
\* stays with no pflip when it is on target; what one paddle does never
\* depends on the other. (For the centers reached, whatever the reading is;
\* and for every invocation made.)
C17_PaddleStep ==
    /\ [](\A t \in AllTargets :
            /\ LET p == movePaddle(RPADCOL, curRightPadCenter, t)
               IN  PaddleLaw(RPADCOL, curRightPadCenter, t, p.center, p.calls)
            /\ LET p == movePaddle(LPADCOL, curLeftPadCenter, t)
               IN  PaddleLaw(LPADCOL, curLeftPadCenter, t, p.center, p.calls))
    /\ [][gameOn =>
            /\ PaddleLaw(RPADCOL, curRightPadCenter, rightPadTarget',
                         curRightPadCenter', calls'.right)
            /\ PaddleLaw(LPADCOL, curLeftPadCenter, leftPadTarget',
                         curLeftPadCenter', calls'.left)]_vars

\* the right paddle has gone one pixel up with two pflips while the left
\* one, on its target, stayed
C17_Witness ==
    /\ gameOn /\ lastOp = "game"
    /\ rightPadTarget = 5 /\ curRightPadCenter = RPADINIT - 1
    /\ Len(calls.right) = 2
    /\ leftPadTarget = LPADINIT /\ curLeftPadCenter = LPADINIT
    /\ calls.left = <<>>

\* C18: each paddle's span [center - HALFPAD, center + HALFPAD] lies
\* strictly between the rows TOP and BOTTOM, and no pflip of a paddle is on
\* a boundary row.
C18_PaddleInside ==
    gameOn =>
        /\ \A c \in {curRightPadCenter, curLeftPadCenter} :
              TOP < c - HALFPAD /\ c + HALFPAD < BOTTOM
        /\ \A k \in 1 .. Len(calls.right) : calls.right[k][3] \notin {TOP, BOTTOM}
        /\ \A k \in 1 .. Len(calls.left) : calls.left[k][3] \notin {TOP, BOTTOM}

\* C19: ballSkipCycles stays in 0 .. BALLVELOCITY-1 and counts the
\* invocations modulo BALLVELOCITY; the ball branch is taken exactly when
\* the count comes back to 0, and every other invocation leaves the ball,
\* the serve and score flags, the serve offset and direction and both
\* scores as they were, and draws no ball.
C19_BallRate ==
    /\ [](ballSkipCycles \in 0 .. BALLVELOCITY - 1)
    /\ [][gameOn =>
            /\ ballSkipCycles' = (ballSkipCycles + 1) % BALLVELOCITY
            /\ advanced' <=> (ballSkipCycles = BALLVELOCITY - 1)
            /\ ~advanced' =>
                  /\ UNCHANGED <<ball, serveFlag, scoringFlag, serveOffset,
                                 serveDir, leftScore, rightScore>>
                  /\ calls'.ball = <<>>]_vars

\* an invocation that left a ball in play where it was
C19_Witness ==
    /\ gameOn /\ lastOp = "game" /\ ~advanced
    /\ ballSkipCycles = BALLVELOCITY - 1
    /\ serveFlag = NOSERVE /\ ball.dy > 0

BallAt(col) ==
    /\ gameOn /\ ballSkipCycles = BALLVELOCITY - 1
    /\ serveFlag = NOSERVE /\ ball.ballX0 = col
MissAtRight == BallAt(RPADCOL + 1)
MissAtLeft == BallAt(LPADCOL - 1)
\* a score counted up by one
Bump(n) == (n + 1) % 10

\* C21: the invocation that detects a miss counts up exactly one of the two
\* scores, by one; every other invocation, the serve after the miss
\* included, leaves both scores as they were.
C21_ScoreOncePerMiss ==
    [][gameOn =>
          IF MissAtRight \/ MissAtLeft
          THEN \/ leftScore' = Bump(leftScore) /\ rightScore' = rightScore
               \/ rightScore' = Bump(rightScore) /\ leftScore' = leftScore
          ELSE UNCHANGED <<leftScore, rightScore>>]_vars

\* a miss has been counted, the ball has been served again and has moved
C21_Witness ==
    /\ gameOn /\ advanced /\ serveFlag = NOSERVE /\ scoringFlag = NONE
    /\ leftScore + rightScore = 1
    /\ ball.ballX0 \notin {RPADCOL - 1, LPADCOL + 1, RPADCOL + 1, LPADCOL - 1}

\* C22: a miss at the right back wall (column RPADCOL+1) counts up the left
\* score and has the next serve come from the right paddle; a miss at the
\* left back wall (column LPADCOL-1) counts up the right score and has the
\* next serve come from the left paddle.
C22_MissServesLoser ==
    [][/\ MissAtRight =>
             leftScore' = Bump(leftScore) /\ serveFlag' = RIGHTSERVE
       /\ MissAtLeft =>
             rightScore' = Bump(rightScore) /\ serveFlag' = LEFTSERVE]_vars

\* the glyphs written by the invocation that has just run
Glyphs == {calls.ball[k][4] : k \in {j \in 1 .. Len(calls.ball) :
                                        calls.ball[j][1] = "writechar"}}

\* C23: both scores are in 0 .. 9 after every invocation, a score of 9
\* that is counted up becomes 0, and every glyph written for a score is one
\* of '0' .. '9' (48 .. 57), the one of the score just reached.
C23_ScoreDigits ==
    /\ [](/\ leftScore \in 0 .. 9 /\ rightScore \in 0 .. 9
          /\ Glyphs \subseteq 48 .. 57)
    /\ [][gameOn =>
            /\ (leftScore = 9 /\ leftScore' # leftScore) => leftScore' = 0
            /\ (rightScore = 9 /\ rightScore' # rightScore) => rightScore' = 0
            /\ leftScore' # leftScore => Glyphs' = {48 + leftScore'}
            /\ rightScore' # rightScore => Glyphs' = {48 + rightScore'}]_vars

\* the left score has just gone from 9 to 0 and its '0' has been written
C23_Witness ==
    /\ gameOn /\ advanced /\ scoringFlag = LEFT
    /\ leftScore = 0 /\ Glyphs = {48}

\* the ball is within the span of a paddle centred at c
InSpan(c) == ball.ballY0 >= c - HALFPAD /\ ball.ballY0 <= c + HALFPAD

\* the invocation about to run finds the ball at a paddle's hit column and
\* within the span the paddle has once it has moved
PaddleHit ==
    \/ BallAt(LPADCOL + 1) /\ InSpan(curLeftPadCenter')
    \/ BallAt(RPADCOL - 1) /\ InSpan(curRightPadCenter')

\* C24: when the ball in play is at a paddle's hit column within the
\* paddle's span, the trajectory computed has sx negated and sy as it was,
\* and its target row is TOP+1 or BOTTOM-1.
C24_PaddleReflect ==
    [][PaddleHit =>
          /\ ball'.sx = -ball.sx
          /\ ball'.sy = ball.sy
          /\ ball'.ballY1 \in {TOP + 1, BOTTOM - 1}]_vars

\* the invocation about to run finds the ball in play on the row next to
\* the top or the bottom wall, with no miss and no paddle hit
WallHit ==
    /\ gameOn /\ ballSkipCycles = BALLVELOCITY - 1 /\ serveFlag = NOSERVE
    /\ ball.ballY0 \in {TOP + 1, BOTTOM - 1}
    /\ ~MissAtRight /\ ~MissAtLeft /\ ~PaddleHit

\* C25: when the ball in play is at row TOP+1 or BOTTOM-1 with no miss and
\* no paddle hit, the trajectory computed has sy negated and sx as it was,
\* and its target column is the back wall the ball travels to (RPADCOL+1
\* for sx = 1, LPADCOL-1 otherwise).
C25_WallReflect ==
    [][WallHit =>
          /\ ball'.sy = -ball.sy
          /\ ball'.sx = ball.sx
          /\ ball'.ballX1 = IF ball.sx = 1 THEN RPADCOL + 1
                             ELSE LPADCOL - 1]_vars

\* C26: no invocation of game() divides by zero: dy is not 0 when a paddle
\* reflection divides by dy, and dx is not 0 when a wall reflection divides
\* by dx.
C26_NoDivisionByZero == undefinedDivs = 0

\* C27: after every invocation that leaves the ball in play, the ball's row
\* is strictly between TOP and BOTTOM and its column is between the two
\* back-wall columns RPADCOL+1 and LPADCOL-1, these included.
C27_BallInside ==
    (gameOn /\ lastOp = "game" /\ serveFlag = NOSERVE) =>
        /\ TOP < ball.ballY0 /\ ball.ballY0 < BOTTOM
        /\ ball.ballX0 >= Min2(RPADCOL + 1, LPADCOL - 1)
        /\ ball.ballX0 <= Max2(RPADCOL + 1, LPADCOL - 1)

\* the ball in flight was served from the right paddle with serveOffset 0
\* and serve direction UP
RightUpServe ==
    served.from = RIGHTSERVE /\ served.offset = 0 /\ served.dir = UP

\* C28: a ball served from the right paddle with serveOffset 0 and
\* direction UP is on the row TOP+1 for the first time after exactly
\* |target row - start row| steps: until then no miss or reflection ends its
\* flight, it is not on that row, and its column is not beyond the target
\* column.
C28_ServeReachesTop ==
    RightUpServe =>
        LET n == abs(TOP + 1 - served.startY)
        IN  /\ served.steps < n =>
                  /\ ~served.ended
                  /\ ball.ballY0 # TOP + 1
                  /\ ball.ballX0 <= ball.ballX1
            /\ (served.steps = n /\ ~served.ended) => ball.ballY0 = TOP + 1

(***************************************************************************)
(* More CLAIMS about the scan-line state machine (under Spec).             *)
(***************************************************************************)

\* the line after scanLine, going round at the end of the field
NextLineOf(n) == IF n = LASTLINE THEN FIRSTLINE ELSE n + 1

\* C29 as stated: every handler invocation counts scanLine up by one,
\* going round at the end of the field.
C29_IncEveryTick ==
    [][pc = "sync" => scanLine' = NextLineOf(scanLine)]_vars

\* C29, amended: scanLine is counted up once a line period, that is by
\* every invocation of hsync and by every second invocation of equalizing
\* and vsync, whose ticks are half a line apart (halfLineCounter goes 0, 1,
\* 0, ...); after LASTLINE it is FIRSTLINE.
C29_IncEveryLine ==
    [][pc = "sync" =>
          IF syncHandler = "hsync"
          THEN /\ scanLine' = NextLineOf(scanLine)
               /\ halfLineCounter' = halfLineCounter
          ELSE /\ scanLine' = IF halfLineCounter = 1 THEN scanLine + 1
                              ELSE scanLine
               /\ halfLineCounter' = 1 - halfLineCounter]_vars

\* a vsync tick has left scanLine where it was, in the second field
C29_Witness ==
    /\ pc = "render" /\ tickHandler = "vsync" /\ fieldsDone = 1
    /\ scanLine = entryLine /\ halfLineCounter = 1

\* the pulse width each handler programs
WidthOf(h) ==
    IF h = "equalizing" THEN EQUWIDTH
    ELSE IF h = "vsync" THEN VSYNCWIDTH ELSE SYNCWIDTH

\* C30: every handler invocation makes exactly one low sync pulse, of the
\* width programmed for the handler (EQUWIDTH in equalizing, VSYNCWIDTH in
\* vsync, SYNCWIDTH in hsync), and after every handler the sync pin is high
\* and Timer0 is stopped with its compare flag clear.
C30_OnePulse ==
    /\ tickHandler # "none" => pulses = <<WidthOf(tickHandler)>>
    /\ syncPin(PORTD) = 1
    /\ TCCR0B = 0
    /\ compareFlag(TIFR0) = 0

\* a vsync tick has made its long pulse
C30_Witness ==
    /\ pc = "render" /\ tickHandler = "vsync"
    /\ pulses = <<VSYNCWIDTH>> /\ OCR0A = VSYNCWIDTH

\* the handler of the k-th tick of a field
HandlerAt(k) ==
    IF k <= 6 THEN "equalizing"
    ELSE IF k <= 12 THEN "vsync"
    ELSE IF k <= 18 THEN "equalizing" ELSE "hsync"

\* the ticks of a field: 18 of half a line, then one for each of the lines
\* 10 .. LASTLINE
TicksInField == 18 + (LASTLINE - 10 + 1)

\* C31: in every field the handlers run in one order: 6 ticks of
\* equalizing, 6 of vsync, 6 of equalizing, then hsync on every tick until
\* scanLine passes LASTLINE, where the field starts again with equalizing.
C31_HandlerOrder ==
    tickHandler # "none" =>
        LET k == nEqu + nVs + nHs
        IN  /\ k \in 1 .. TicksInField
            /\ tickHandler = HandlerAt(k)
            /\ wrapped <=> (k = TicksInField)
            /\ syncHandler = IF wrapped THEN "equalizing" ELSE HandlerAt(k + 1)

\* the second field has come to its second run of equalizing
C31_Witness ==
    /\ fieldsDone = 1 /\ pc = "render"
    /\ tickHandler = "equalizing" /\ nEqu = 7 /\ nVs = 6 /\ nHs = 0

\* C37: at every tick boundary OCR1A is HSYNC exactly when syncHandler is
\* hsync and HSYNCHALF exactly when it is equalizing or vsync;
\* halfLineCounter is 0 or 1 always, and 0 whenever syncHandler is hsync.
C37_PeriodByHandler ==
    /\ (OCR1A = HSYNC) <=> (syncHandler = "hsync")
    /\ (OCR1A = HSYNCHALF) <=> (syncHandler \in {"equalizing", "vsync"})
    /\ halfLineCounter \in {0, 1}
    /\ syncHandler = "hsync" => halfLineCounter = 0

\* the second field's hsync ticks are under way, a line period apart
C37_Witness ==
    /\ pc = "sync" /\ fieldsDone = 1 /\ tickHandler = "hsync"
    /\ syncHandler = "hsync" /\ OCR1A = HSYNC /\ halfLineCounter = 0

(***************************************************************************)
(* More CLAIMS about game() (under SpecGame).                              *)
(***************************************************************************)

\* pixel (x, y) of the buffer buf is lit
LitAt(buf, x, y) == HasBit(buf[y * horizontalBytes + x \div 8], bitFlip(x % 8))

\* the rows between the walls on which column col of buf is lit
LitRows(buf, col) == {y \in TOP + 1 .. BOTTOM - 1 : LitAt(buf, col, y)}

\* column col of buf shows a paddle centred at c, and nothing else
PaddleShape(buf, col, c) == LitRows(buf, col) = c - HALFPAD .. c + HALFPAD

\* C32: if before an invocation of game() the lit pixels of a paddle's
\* column are exactly the rows [c-HALFPAD, c+HALFPAD] of its center c, then
\* after it they are exactly the rows [c'-HALFPAD, c'+HALFPAD] of the new
\* center c', whether the paddle moved up, down or not at all.
C32_PaddleShape ==
    [][gameOn =>
          /\ PaddleShape(vram, RPADCOL, curRightPadCenter) =>
                 PaddleShape(vram', RPADCOL, curRightPadCenter')
          /\ PaddleShape(vram, LPADCOL, curLeftPadCenter) =>
                 PaddleShape(vram', LPADCOL, curLeftPadCenter')]_vars

\* the digit written by the invocation that has just run: its call
WriteCall == calls.ball[Len(calls.ball)]

\* byte i of the buffer is row k of the glyph written at (x, y)
GlyphByte(i, x, y, k) == i = x \div 8 + horizontalBytes * (y + k)

\* the digit's glyph fits in the buffer at (x, y)
GlyphFits(x, y) ==
    /\ x <= horisontalPixels
    /\ y + FONTBYTES - 1 <= verticalPixels

\* C33: for a digit and a position where the glyph fits, the digit writer
\* stores the 7 font rows of the digit, in order, in the 7 bytes at
\* (x/8) + horizontalBytes*(y+i), i = 0 .. 6, and leaves every other byte of
\* the buffer as it was. (The digit is written last in game(): the buffer
\* it finds is the one left by the calls made before it.)
C33_GlyphWritten ==
    [][(gameOn /\ Glyphs' # {}) =>
          LET c == WriteCall'
              before == SubSeq(calls'.ball, 1, Len(calls'.ball) - 1)
          IN  /\ c[1] = "writechar" /\ c[4] \in 48 .. 57
              /\ GlyphFits(c[2], c[3])
              /\ \A old \in {draw(Now, calls'.right \o calls'.left \o before).buf} :
                 \A i \in DOMAIN vram :
                    vram'[i] =
                        IF \E k \in 0 .. FONTBYTES - 1 : GlyphByte(i, c[2], c[3], k)
                        THEN LET k == CHOOSE k \in 0 .. FONTBYTES - 1 :
                                          GlyphByte(i, c[2], c[3], k)
                             IN  font[(c[4] - 48) * FONTBYTES + k + 1]
                        ELSE old[i]]_vars

\* the left score's '1' has been written over its '0'
C33_Witness ==
    /\ gameOn /\ advanced /\ leftScore = 1 /\ Glyphs = {49}
    /\ prevVram[WriteCall[2] \div 8 + horizontalBytes * (WriteCall[3] + 1)] = 136
    /\ vram[WriteCall[2] \div 8 + horizontalBytes * (WriteCall[3] + 1)] = 48

\* the invocation about to run moves the ball and finds a serve pending
ServePending ==
    /\ gameOn /\ ballSkipCycles = BALLVELOCITY - 1
    /\ serveFlag \in {RIGHTSERVE, LEFTSERVE}

\* the ball b is one step into a trajectory that starts beside the paddle
\* of column col at its center c
ServedFrom(b, col, c) ==
    /\ abs(b.ballX0 - col) <= 1 /\ abs(b.ballY0 - c) <= 1
    /\ b.ballY1 \in {TOP + 1, BOTTOM - 1}
    /\ b.dx = abs(b.ballX1 - col) /\ b.dy = abs(b.ballY1 - c)

\* C34: a ball-moving invocation that finds serveFlag at RIGHTSERVE or
\* LEFTSERVE ends with serveFlag = NOSERVE and scoringFlag = NONE, with the
\* trajectory started from beside the serving paddle at its current
\* center, and with the ball's pixel lit; and the invocation that detects a
\* miss leaves a serve pending.
C34_ServeOnce ==
    [][/\ ServePending =>
             /\ serveFlag' = NOSERVE /\ scoringFlag' = NONE
             /\ IF serveFlag = RIGHTSERVE
                THEN ServedFrom(ball', RPADCOL - 1, curRightPadCenter')
                ELSE ServedFrom(ball', LPADCOL + 1, curLeftPadCenter')
             /\ LitAt(vram', ball'.ballX0, ball'.ballY0)
       /\ (MissAtRight \/ MissAtLeft) =>
             serveFlag' \in {RIGHTSERVE, LEFTSERVE}]_vars

\* the invocation about to run moves the ball
Advancing == gameOn /\ ballSkipCycles = BALLVELOCITY - 1

\* byte i of the buffer without the bits that the walls, the paddle columns
\* and the score digits own
StrayBits(buf, i) ==
    LET y == i \div horizontalBytes
        c == i % horizontalBytes
        own(col) == IF c = col \div 8 /\ HasBit(buf[i], bitFlip(col % 8))
                    THEN bitFlip(col % 8) ELSE 0
    IN  IF \/ y \in {TOP, BOTTOM}
           \/ /\ y \in 3 .. 3 + FONTBYTES - 1
              /\ c \in {((getXres + 1) \div 2 + RIGHTSCORE) \div 8,
                        ((getXres + 1) \div 2 + LEFTSCORE) \div 8}
        THEN 0
        ELSE buf[i] - own(RPADCOL) - own(LPADCOL)

\* at most one pixel is lit besides walls, paddle columns and digits
OneBallPixel(buf) ==
    LET stray == {i \in DOMAIN buf : StrayBits(buf, i) # 0}
    IN  /\ Cardinality(stray) <= 1
        /\ \A i \in stray : \E k \in 0 .. 7 : StrayBits(buf, i) = bitFlip(k)

\* C35: in every ball-moving invocation the first ball call is
\* pflip(ballX0, ballY0) at the ball's location before the invocation, it
\* finds that pixel lit and turns it off (it never lights a pixel), and at
\* the end of the invocation at most one ball pixel is lit.
C35_ClearTurnsOff ==
    [][Advancing =>
          /\ calls'.ball # <<>>
          /\ calls'.ball[1] = <<"pflip", U16(ball.ballX0), U16(ball.ballY0)>>
          /\ ~clipped(U16(ball.ballX0), U16(ball.ballY0))
          /\ \A old \in {draw(Now, calls'.right \o calls'.left).buf} :
                LitAt(old, ball.ballX0, ball.ballY0)
          /\ OneBallPixel(vram')]_vars

\* More CLAIMS about the pixel primitives (under SpecPix)

\* C36: after videoinit, a pset, preset or pflip whose coordinates pass the
\* bounds check accesses a byte index strictly below bufferSize, and two
\* distinct pixels that pass the check never share a (byte, bit) position.
C36_PixelWritesInside ==
    /\ (PixelOp({"pset", "preset", "pflip"}) /\ InBounds) =>
           /\ lastWrites = {<<videoBuffer, pixelIndex(argX, argY)>>}
           /\ pixelIndex(argX, argY) < bufferSize
    /\ (initialized = 1) =>
           \A x1, x2 \in 0 .. horisontalPixels, y1, y2 \in 0 .. verticalPixels :
              <<x1, y1>> # <<x2, y2>> =>
                 <<pixelIndex(x1, y1), pixelPattern(x1)>>
                      # <<pixelIndex(x2, y2), pixelPattern(x2)>>

====
